---- MODULE Spec2Model ----
(***************************************************************************)
(* The version transition pipeline of archetypal:                          *)
(* archetypal/eplus_interface/transition.py (TransitionExe, the generator  *)
(* of transition programs, and TransitionThread, the thread that runs      *)
(* them one after the other on an IDF model).                              *)
(*                                                                         *)
(* A version is a triple <<major, minor, patch>>.  A transition program    *)
(* is a file "Transition-V<from>-to-V<to>", modelled as [from, to].  A     *)
(* file of the file system is a path <<directory, name>> holding a content *)
(* [ver, gen]: the EnergyPlus version written in the file and the number   *)
(* of the launch that produced it (0: the user's original file).           *)
(*                                                                         *)
(* The module also holds the energy balance of                             *)
(* archetypal/idfclass/end_use_balance.py (EndUseBalance): the rolling     *)
(* sign of the HVAC input, the heating and cooling masks, and the split of *)
(* a component into gains and losses (SpecBalance).                        *)
(***************************************************************************)
EXTENDS Integers, Sequences, FiniteSets, TLC

\* Bound of the model: the number of program launches followed in one run.
MaxLaunch == 4

\* The versions the model draws the file's and the requested version from.
Ladder == << <<8, 0, 0>>, <<8, 5, 0>>, <<8, 9, 0>>, <<9, 0, 1>> >>

Versions == {Ladder[i] : i \in 1..Len(Ladder)}

\* The transition programs an installation may hold in IDFVersionUpdater.
ToolPool ==
    { [from |-> <<8, 0, 0>>, to |-> <<8, 5, 0>>],
      [from |-> <<8, 5, 0>>, to |-> <<8, 9, 0>>],
      [from |-> <<8, 9, 0>>, to |-> <<9, 0, 1>>] }

\* The same with a second program that upgrades to 8-5-0 (one key of
\* trans_exec for two files).
ToolPoolWithTwin == ToolPool \cup { [from |-> <<8, 4, 0>>, to |-> <<8, 5, 0>>] }

VARIABLES
    pc,            \* position of the caller / of TransitionThread.run
    updater_dir,   \* idf.idfversionupdater_dir: its listing, in the OS's order
    staged_tools,  \* the Transition-V* files present in the running directory
    fs,            \* the model files: path -> content
    idf,           \* the IDF object: idfname, as_version
    overwrite,     \* TransitionThread.overwrite
    cancelled,     \* TransitionThread.cancelled
    exception,     \* TransitionThread.exception
    escaped,       \* the exception that left run(), if any
    trans_exec,    \* TransitionExe._trans_exec: <<>> (None) or the dict, as a
                   \* sequence of [key, exec] in insertion order
    discovered,    \* TRUE once TransitionExe._trans_exec is not None
    trans,         \* TransitionExe.trans
    cmd,           \* TransitionThread.cmd
    p,             \* TransitionThread.p: returncode and the unread stderr
    launched,      \* history: the target versions of the programs launched
    clean,         \* history: every program so far exited with code 0 and
                   \* wrote its output file and no other
    last,          \* history: how the last program ended and what run() did
    outcome,       \* what the caller of the upgrade gets
    hvac_input,    \* EndUseBalance.from_idf: _hvac_input, key -> series
    rolling_sign,  \* from_idf: rolling_sign
    is_heating,    \* EndUseBalance.is_heating
    is_cooling,    \* EndUseBalance.is_cooling
    heating,       \* EndUseBalance.heating
    cooling,       \* EndUseBalance.cooling
    component,     \* a component of the balance, summed by key
    final,         \* what separate_gains_and_losses returns for it
    summary,       \* its row of component_summary
    zone_multiplier,    \* from_idf: the Multiplier field of each ZONE object
    collected,          \* from_idf: a table as collect_by_output_name gives it
    scaled,             \* from_idf: series name -> the table from_idf goes on with
    which,              \* from_idf: the paired component looked at
    load_gain,          \* from_idf: its gain table
    load_loss,          \* from_idf: its loss table
    vent_empty,         \* from_idf: one of vent_gain, vent_loss, cooling, heating
                        \* is empty
    netted,             \* from_idf: infiltration, mech_vent or nat_vent
    to_df_result,       \* what to_df returns or raises
    system_data,        \* to_sankey: system_data.sum(), the total of each column
    annual_system_data, \* to_sankey: annual_system_data
    system_input,       \* to_sankey: the End Uses table of the HTML report
    sankey,             \* to_sankey: the records written, tier by tier
    given,              \* Outputs.__init__: the argument outputs
    other_outputs,      \* Outputs._other_outputs
    output_variables,   \* Outputs._output_variables
    output_meters,      \* Outputs._output_meters
    newidfobjects,      \* the calls of idf.newidfobject made by apply()
    returned,           \* what the last method called on the Outputs returned
    script,             \* the writes the transition program has still to do
    stdout_pipe,        \* bytes in the pipe of the program's stdout
    stderr_pipe,        \* bytes in the pipe of the program's stderr
    runner,             \* position of run() between Popen and the callbacks
    prog                \* the transition program: running or exited

\* The variables of the energy balance (end_use_balance.py).
balance_vars == << hvac_input, rolling_sign, is_heating, is_cooling, heating,
                  cooling, component, final, summary >>

\* from_idf: the zone multipliers.
multiplier_vars == << zone_multiplier, collected, scaled >>

\* from_idf: the netting of the paired components, and to_df.
netting_vars == << which, load_gain, load_loss, vent_empty, netted,
                  to_df_result >>

\* to_sankey.
sankey_vars == << system_data, annual_system_data, system_input, sankey >>

\* Outputs (outputs.py).
outputs_vars == << given, other_outputs, output_variables, output_meters,
                  newidfobjects, returned >>

\* The two pipes between run() and the transition program.
pipe_vars == << script, stdout_pipe, stderr_pipe, runner, prog >>

\* All of them but the variables of the energy balance.
extra_vars == << multiplier_vars, netting_vars, sankey_vars, outputs_vars,
                pipe_vars >>

vars == << pc, updater_dir, staged_tools, fs, idf, overwrite, cancelled,
           exception, escaped, trans_exec, discovered, trans, cmd, p,
           launched, clean, last, outcome, balance_vars, extra_vars >>

----------------------------------------------------------------------------
(* Versions *)

NoVersion == <<0, 0, 0>>

\* EnergyPlusVersion.__lt__: the order of the triples.
VersionLess(a, b) ==
    \/ a[1] < b[1]
    \/ a[1] = b[1] /\ a[2] < b[2]
    \/ a[1] = b[1] /\ a[2] = b[2] /\ a[3] < b[3]

VersionLeq(a, b) == a = b \/ VersionLess(a, b)

\* re.search(r"to-V(([\d])-([\d])-([\d]))", exec).group(1): the version after
\* "to-V" in the program's file name.
ParseTarget(exec) == exec.to

----------------------------------------------------------------------------
(* Files *)

Dirs == {"in", "tmp", "out"}
Names == {"X.idf", "X.idfnew", "Y.idfnew"}
Paths == Dirs \X Names

NoFile == [ver |-> NoVersion, gen |-> -1]

OriginalPath == <<"in", "X.idf">>

\* idf.output_directory
OutputDirectory == "out"

\* Path.basename()
Basename(path) == path[2]

\* Path.copy(dst) with dst a directory: the file keeps its name.
CopyInto(f, path, dir) == [f EXCEPT ![<<dir, Basename(path)>>] = f[path]]

\* Path.copy(dst) with dst a file path.
CopyTo(f, path, dst) == [f EXCEPT ![dst] = f[path]]

\* Path(dir).files("*.idfnew")
IdfNewFiles(f, dir) ==
    {q \in Paths : q[1] = dir /\ q[2] \in {"X.idfnew", "Y.idfnew"} /\ f[q] # NoFile}

\* The name of the file a transition program writes for the input `name`:
\* the input's name with the extension idfnew.
NewName(name) == IF name = "Y.idfnew" THEN "Y.idfnew" ELSE "X.idfnew"

OtherNewName(name) == IF NewName(name) = "X.idfnew" THEN "Y.idfnew" ELSE "X.idfnew"

----------------------------------------------------------------------------
(* The IDF object *)

\* IDF.idf_version: the version written in the file idf.idfname points at.
idf_version(f, i) == f[i.idfname].ver

\* IDF.name: the base name of the model's file.
idf_name(i) == Basename(i.idfname)

----------------------------------------------------------------------------
(* Sequences *)

RECURSIVE Insert(_, _)
Insert(sorted, v) ==
    IF sorted = <<>> THEN <<v>>
    ELSE IF VersionLess(v, Head(sorted)) THEN <<v>> \o sorted
    ELSE <<Head(sorted)>> \o Insert(Tail(sorted), v)

RECURSIVE Sort(_)
\* list.sort() on EnergyPlusVersion keys.
Sort(s) == IF s = <<>> THEN <<>> ELSE Insert(Sort(Tail(s)), Head(s))

RECURSIVE Filter_keeps_current(_, _, _)
\* Filter with key >= idf_version in place of key > idf_version.
Filter_keeps_current(keys, as_version, file_version) ==
    IF keys = <<>> THEN <<>>
    ELSE LET key == Head(keys)
             rest == Filter_keeps_current(Tail(keys), as_version, file_version)
         IN IF VersionLeq(key, as_version) /\ VersionLeq(file_version, key)
            THEN <<key>> \o rest ELSE rest

RECURSIVE Filter(_, _, _)
\* [key for key in keys if as_version >= key > idf_version]
Filter(keys, as_version, file_version) ==
    IF keys = <<>> THEN <<>>
    ELSE LET key == Head(keys)
             rest == Filter(Tail(keys), as_version, file_version)
         IN IF VersionLeq(key, as_version) /\ VersionLess(file_version, key)
            THEN <<key>> \o rest ELSE rest

Range(s) == {s[i] : i \in 1..Len(s)}

\* The sequences without repetition over the subsets of S: directory listings.
Listings(S) ==
    UNION { {s \in [1..Cardinality(T) -> T] : Range(s) = T} : T \in SUBSET S }

----------------------------------------------------------------------------
(* TransitionExe *)

RECURSIVE DictIndex(_, _)
\* The position of key in the dict d, 0 when the dict has no such key.
DictIndex(d, key) ==
    IF d = <<>> THEN 0
    ELSE IF d[Len(d)].key = key THEN Len(d)
    ELSE DictIndex(SubSeq(d, 1, Len(d) - 1), key)

\* d[key] = exec: a new key is appended, a known key keeps its place.
DictPut(d, key, exec) ==
    LET i == DictIndex(d, key) IN
    IF i = 0 THEN Append(d, [key |-> key, exec |-> exec])
    ELSE [d EXCEPT ![i] = [key |-> key, exec |-> exec]]

RECURSIVE BuildDict(_)
\* {EnergyPlusVersion(re.search(...).group(1)): exec for exec in files}
BuildDict(files) ==
    IF files = <<>> THEN <<>>
    ELSE DictPut(BuildDict(SubSeq(files, 1, Len(files) - 1)),
                 ParseTarget(files[Len(files)]), files[Len(files)])

DictKeys(d) == [i \in 1..Len(d) |-> d[i].key]

DictGet(d, key) == d[DictIndex(d, key)].exec

\* transitions without transitions.sort().
transitions_unsorted(d, f, i) == Filter(DictKeys(d), i.as_version, idf_version(f, i))

\* TransitionExe.transitions
transitions(d, f, i) == Sort(Filter(DictKeys(d), i.as_version, idf_version(f, i)))

\* TransitionThread.trans_exec: scans idf.idfversionupdater_dir at each use.
thread_trans_exec(dir) == BuildDict(dir)

\* TransitionThread.transitions
thread_transitions(dir, f, i) ==
    Sort(Filter(DictKeys(thread_trans_exec(dir)), i.as_version, idf_version(f, i)))

\* TransitionExe.get_exe_path: the program of self.trans, when it exists.
ExeExists(d, t, present) == DictGet(d, t) \in present

\* TransitionExe.cmd: ["./" + program, basename of the staged copy]
Command(d, t, i) == [exe |-> DictGet(d, t), arg |-> idf_name(i)]

----------------------------------------------------------------------------
(* TransitionThread *)

None == [kind |-> "None"]

\* CalledProcessError(returncode, cmd=cmd, stderr=stderr)
CalledProcessError(returncode, command, stderr) ==
    [kind |-> "CalledProcessError", returncode |-> returncode,
     cmd |-> command, stderr |-> stderr]

NoCmd == [exe |-> [from |-> NoVersion, to |-> NoVersion], arg |-> "X.idf"]

NoProcess == [returncode |-> -1, stderr |-> <<>>]

\* What a program may write on its stderr before it exits non-zero.
StderrTexts == {<<>>, <<"** Fatal **">>}

RunPcs == {"next", "cmd", "running", "exited"}

\* Adopt without self.idf.idfname = file.
Adopt_keeps_idfname(st, q, ow) ==
    LET dst == IF ow THEN <<"out", st.idf.idfname[2]>> ELSE <<"out", q[2]>>
    IN [fs |-> [st.fs EXCEPT ![dst] = st.fs[q]], idf |-> st.idf]

\* One pass of the loop of success_callback: copy the file f to the output
\* directory and make it the model's file.
Adopt(st, q, ow) ==
    LET dst == IF ow THEN <<OutputDirectory, idf_name(st.idf)>>
               ELSE <<OutputDirectory, Basename(q)>>
    IN [fs |-> CopyTo(st.fs, q, dst), idf |-> [st.idf EXCEPT !.idfname = dst]]

RECURSIVE AdoptAll(_, _, _)
\* success_callback: for f in Path(self.run_dir).files("*.idfnew")
AdoptAll(st, files, ow) ==
    IF files = <<>> THEN st
    ELSE AdoptAll(Adopt(st, Head(files), ow), Tail(files), ow)

\* failure_callback: stderr is read to its end, then the exception is made
\* with the stream object, of which nothing is left to read.
FailureException(proc, command) ==
    LET drained == [proc EXCEPT !.stderr = <<>>]
    IN CalledProcessError(proc.returncode, command, drained.stderr)

----------------------------------------------------------------------------
(* EndUseBalance (archetypal/idfclass/end_use_balance.py)                  *)
(*                                                                         *)
(* A table is a function key -> series, all series of one length; a cell   *)
(* of a series is a number or NaN.                                         *)

\* Bound of the model: the most cells (keys times timesteps) of the tables
\* the inputs are drawn with.
MaxCells == 3

\* The keys (zones) of the tables, and the sets of keys a table is drawn with.
Keys == {"ZONE1", "ZONE2"}
KeySets == {{"ZONE1"}, Keys}

\* The raw values the series are drawn from.
Values == {-2, 0, 4}

\* The series of the scenario of the rolling sign change.
Scenario == <<-5, -3, 0, 4, 6, -2>>

NaN == [isnan |-> TRUE, v |-> 0]

Num(x) == [isnan |-> FALSE, v |-> x]

\* numpy.sign
np_sign(x) == IF x > 0 THEN 1 ELSE IF x < 0 THEN -1 ELSE 0

\* .replace({0: np.NaN})
replace_zero(c) == IF ~c.isnan /\ c.v = 0 THEN NaN ELSE c

\* .fillna(method="bfill"): a NaN takes the next value that is not NaN.
bfill(s) ==
    [i \in 1..Len(s) |->
        LET after == {j \in i..Len(s) : ~s[j].isnan}
        IN IF after = {} THEN NaN
           ELSE s[CHOOSE j \in after : \A h \in after : j <= h]]

\* .fillna(method="ffill"): a NaN takes the last value that is not NaN.
ffill(s) ==
    [i \in 1..Len(s) |->
        LET before == {j \in 1..i : ~s[j].isnan}
        IN IF before = {} THEN NaN
           ELSE s[CHOOSE j \in before : \A h \in before : j >= h]]

\* .shift(-1): each cell takes the next one, the last one becomes NaN.
shift_back(s) == [i \in 1..Len(s) |-> IF i < Len(s) THEN s[i + 1] ELSE NaN]

\* a != b on cells: NaN differs from everything, NaN included.
ne(a, b) == a.isnan \/ b.isnan \/ a.v # b.v

\* s[mask]: the cells where the mask is False become NaN.
where(s, mask) == [i \in 1..Len(s) |-> IF mask[i] THEN s[i] ELSE NaN]

\* .fillna(0)
fillna0(s) == [i \in 1..Len(s) |-> IF s[i].isnan THEN Num(0) ELSE s[i]]

\* get_rolling_sign_change with the two fills of sign in the other order.
sign_of_column_ffill_first(col) ==
    LET sign == bfill(ffill([i \in 1..Len(col) |->
                                replace_zero(Num(np_sign(col[i])))]))
        sign_switch == [i \in 1..Len(col) |-> ne(sign[i], shift_back(sign)[i])]
    IN ffill(bfill(where(sign, sign_switch)))

\* get_rolling_sign_change, on one column of data.
sign_of_column(col) ==
    LET sign == ffill(bfill([i \in 1..Len(col) |->
                                replace_zero(Num(np_sign(col[i])))]))
        sign_switch == [i \in 1..Len(col) |-> ne(sign[i], shift_back(sign)[i])]
    IN ffill(bfill(where(sign, sign_switch)))

get_rolling_sign_change(data) == [k \in DOMAIN data |-> sign_of_column(data[k])]

\* rolling_sign > 0 and rolling_sign < 0: False on NaN.
gt0(c) == ~c.isnan /\ c.v > 0
lt0(c) == ~c.isnan /\ c.v < 0

\* is_heating = rolling_sign > 0
heating_mask(sign) ==
    [k \in DOMAIN sign |-> [i \in 1..Len(sign[k]) |-> gt0(sign[k][i])]]

\* is_cooling = rolling_sign < 0
cooling_mask(sign) ==
    [k \in DOMAIN sign |-> [i \in 1..Len(sign[k]) |-> lt0(sign[k][i])]]

\* _hvac_input.fillna(0), the mask left out.
stream_unmasked(data, mask) ==
    [k \in DOMAIN data |-> fillna0([i \in 1..Len(data[k]) |-> Num(data[k][i])])]

\* _hvac_input[mask].fillna(0)
stream(data, mask) ==
    [k \in DOMAIN data |->
        fillna0(where([i \in 1..Len(data[k]) |-> Num(data[k][i])], mask[k]))]

\* The four columns of the table separate_gains_and_losses returns.
Periods == {"Cooling Periods", "Heating Periods"}
GainLoss == {"Heat Gain", "Heat Loss"}
Slices == Periods \X GainLoss

\* inter without the masks: every value under both periods.
inter_all_periods(stacked, mask, period) == stacked

\* inter: the stacked component where the zone is cooling, under "Cooling
\* Periods", and where it is not, under "Heating Periods".
inter(stacked, mask, period) ==
    [k \in DOMAIN stacked |->
        where(stacked[k],
              [i \in 1..Len(stacked[k]) |->
                  IF period = "Cooling Periods" THEN mask[k][i] ELSE ~mask[k][i]])]

\* positive_mask = inter >= 0: False on NaN.
positive_mask(c) == ~c.isnan /\ c.v >= 0

\* separate_gains_and_losses: for every key and timestep, the four cells
\* (Period, Gain/Loss) of the component's value.
separate_gains_and_losses(comp, cooling_periods) ==
    LET stacked == [k \in DOMAIN comp |->
                       [i \in 1..Len(comp[k]) |-> Num(comp[k][i])]]
    IN [k \in DOMAIN comp |->
          [i \in 1..Len(comp[k]) |->
             [sl \in Slices |->
                LET c == inter(stacked, cooling_periods, sl[1])[k][i]
                IN IF sl[2] = "Heat Gain"
                   THEN (IF positive_mask(c) THEN c ELSE NaN)
                   ELSE (IF ~positive_mask(c) THEN c ELSE NaN)]]]

RECURSIVE nansum_keeps_nan(_)
\* The sum of a column with skipna=False.
nansum_keeps_nan(cells) ==
    IF cells = <<>> THEN Num(0)
    ELSE LET rest == nansum_keeps_nan(Tail(cells))
         IN IF Head(cells).isnan \/ rest.isnan THEN NaN
            ELSE Num(Head(cells).v + rest.v)

RECURSIVE nansum(_)
\* DataFrame.sum() on one column: NaN cells are skipped, and the sum of no
\* cell is 0.
nansum(cells) ==
    IF cells = <<>> THEN Num(0)
    ELSE LET rest == nansum(Tail(cells))
         IN IF Head(cells).isnan THEN rest ELSE Num(Head(cells).v + rest.v)

RECURSIVE Rows(_, _)
\* The rows (timestep, key) of a table, as the sequence of their records.
Rows(table, keys) ==
    IF keys = {} THEN <<>>
    ELSE LET k == CHOOSE key \in keys : TRUE
         IN table[k] \o Rows(table, keys \ {k})

\* component_summary, one component: separate_gains_and_losses(...).sum(),
\* the total of each of the four columns over every row.
component_summary(separated) ==
    [sl \in Slices |->
        LET rows == Rows(separated, DOMAIN separated)
        IN nansum([r \in 1..Len(rows) |-> rows[r][sl]])]

\* The tables before they are computed.
NoTable == [k \in Keys |-> <<>>]
NoSummary == [sl \in Slices |-> NaN]

\* No energy balance is being computed.
NoBalance ==
    /\ hvac_input = NoTable
    /\ rolling_sign = NoTable
    /\ is_heating = NoTable
    /\ is_cooling = NoTable
    /\ heating = NoTable
    /\ cooling = NoTable
    /\ component = NoTable
    /\ final = NoTable
    /\ summary = NoSummary

\* A table with ordered columns and its index (the number of its rows).
NoFrame == [kind |-> "frame", index |-> 0, columns |-> <<>>]

\* No multiplier is being applied.
NoMultipliers ==
    /\ zone_multiplier = <<>>
    /\ collected = NoTable
    /\ scaled = <<>>

\* No component is being netted.
NoNetting ==
    /\ which = "none"
    /\ load_gain = NoFrame
    /\ load_loss = NoFrame
    /\ vent_empty = FALSE
    /\ netted = None
    /\ to_df_result = None

\* No Sankey diagram is being built.
NoSankey ==
    /\ system_data = <<>>
    /\ annual_system_data = <<>>
    /\ system_input = <<>>
    /\ sankey = <<>>

\* No Outputs object.
NoOutputs ==
    /\ given = <<>>
    /\ other_outputs = <<>>
    /\ output_variables = {}
    /\ output_meters = {}
    /\ newidfobjects = <<>>
    /\ returned = <<>>

\* No transition program on the pipes.
NoPipes ==
    /\ script = <<>>
    /\ stdout_pipe = 0
    /\ stderr_pipe = 0
    /\ runner = "none"
    /\ prog = "none"

----------------------------------------------------------------------------
(* The state machine *)

NoOutcome == [code |-> -1, out |-> "none", stderr |-> <<>>, cb |-> "none"]

InitWith(pool) ==
    /\ pc = "idle"
    /\ updater_dir \in Listings(pool)
    /\ staged_tools = {}
    /\ \E c \in Versions :
          fs = [q \in Paths |-> IF q = OriginalPath
                                THEN [ver |-> c, gen |-> 0] ELSE NoFile]
    /\ \E t \in Versions : idf = [idfname |-> OriginalPath, as_version |-> t]
    /\ overwrite \in BOOLEAN
    /\ cancelled = FALSE
    /\ exception = None
    /\ escaped = "None"
    /\ trans_exec = <<>>
    /\ discovered = FALSE
    /\ trans = NoVersion
    /\ cmd = NoCmd
    /\ p = NoProcess
    /\ launched = <<>>
    /\ clean = TRUE
    /\ last = NoOutcome
    /\ outcome = "Pending"
    /\ NoBalance
    /\ NoMultipliers /\ NoNetting /\ NoSankey /\ NoOutputs /\ NoPipes

Init == InitWith(ToolPool)

\* Upgrade without the comparison of the two versions.
Upgrade_without_check ==
    /\ pc = "idle"
    /\ pc' = "start"
    /\ UNCHANGED << updater_dir, staged_tools, fs, idf, overwrite, cancelled,
                    exception, escaped, trans_exec, discovered, trans, cmd, p,
                    launched, clean, last, outcome >>
    /\ UNCHANGED balance_vars
    /\ UNCHANGED extra_vars

\* The caller asks for the upgrade of idf to idf.as_version: a target below
\* the file's version is refused, otherwise the thread is made and started.
Upgrade ==
    /\ pc = "idle"
    /\ IF VersionLess(idf.as_version, idf_version(fs, idf))
       THEN pc' = "returned" /\ outcome' = "VersionError"
       ELSE pc' = "start" /\ outcome' = outcome
    /\ UNCHANGED << updater_dir, staged_tools, fs, idf, overwrite, cancelled,
                    exception, escaped, trans_exec, discovered, trans, cmd, p,
                    launched, clean, last >>
    /\ UNCHANGED balance_vars
    /\ UNCHANGED extra_vars

\* Another thread sets TransitionThread.cancelled while the thread lives.
Cancel ==
    /\ pc \in {"start"} \cup RunPcs
    /\ ~cancelled
    /\ cancelled' = TRUE
    /\ UNCHANGED << pc, updater_dir, staged_tools, fs, idf, overwrite,
                    exception, escaped, trans_exec, discovered, trans, cmd, p,
                    launched, clean, last, outcome >>
    /\ UNCHANGED balance_vars
    /\ UNCHANGED extra_vars

\* run(), up to the loop: the flag is cleared, the model's file is copied to
\* tmp, the generator is made, and len(generator.transitions) reads
\* trans_exec for the first time: the updater's directory is copied to tmp
\* and the programs found there are registered under their target version.
RunStart ==
    /\ pc = "start"
    /\ cancelled' = FALSE
    /\ fs' = CopyInto(fs, idf.idfname, "tmp")
    /\ staged_tools' = Range(updater_dir)
    /\ trans_exec' = BuildDict(updater_dir)
    /\ discovered' = TRUE
    /\ pc' = "next"
    /\ UNCHANGED << updater_dir, idf, overwrite, exception, escaped, trans,
                    cmd, p, launched, clean, last, outcome >>
    /\ UNCHANGED balance_vars
    /\ UNCHANGED extra_vars

\* TransitionExe.__next__: a new transitions_generator is made from
\* self.transitions and its first element is taken; StopIteration ends the
\* loop, and run() returns.
Next_ ==
    /\ pc = "next"
    /\ LET ts == transitions(trans_exec, fs, idf) IN
       IF ts = <<>>
       THEN pc' = "done" /\ trans' = trans
       ELSE pc' = "cmd" /\ trans' = Head(ts)
    /\ UNCHANGED << updater_dir, staged_tools, fs, idf, overwrite, cancelled,
                    exception, escaped, trans_exec, discovered, cmd, p,
                    launched, clean, last, outcome >>
    /\ UNCHANGED balance_vars
    /\ UNCHANGED extra_vars

\* trans.cmd() and subprocess.Popen: get_exe_path raises when the program is
\* gone (the exception leaves run()); otherwise the model's file is copied
\* to tmp again and the program is started on it.
Launch ==
    /\ pc = "cmd"
    /\ IF ~ExeExists(trans_exec, trans, staged_tools)
       THEN /\ pc' = "raised"
            /\ escaped' = "EnergyPlusProcessError"
            /\ UNCHANGED << fs, cmd, p, launched, last >>
       ELSE /\ Len(launched) < MaxLaunch
            /\ fs' = CopyInto(fs, idf.idfname, "tmp")
            /\ cmd' = Command(trans_exec, trans, idf)
            /\ p' = NoProcess
            /\ launched' = Append(launched, trans)
            /\ last' = NoOutcome
            /\ pc' = "running"
            /\ escaped' = escaped
    /\ UNCHANGED << updater_dir, staged_tools, idf, overwrite, cancelled,
                    exception, trans_exec, discovered, trans, clean, outcome >>
    /\ UNCHANGED balance_vars
    /\ UNCHANGED extra_vars

\* The files a program started as `command` leaves in tmp: nothing, its
\* output file (the model in the program's target version), or its output
\* file and a second *.idfnew file (the model as it was given).
Written(f, command, out, n) ==
    LET new == [ver |-> ParseTarget(command.exe), gen |-> n]
        old == [ver |-> f[<<"tmp", command.arg>>].ver, gen |-> n]
        one == [f EXCEPT ![<<"tmp", NewName(command.arg)>>] = new]
    IN CASE out = "none" -> f
         [] out = "one"  -> one
         [] out = "two"  -> [one EXCEPT ![<<"tmp", OtherNewName(command.arg)>>] = old]

\* The program runs and exits; run() has read its stdout and waited for it.
Exit ==
    /\ pc = "running"
    /\ \E code \in {0, 1}, out \in {"none", "one", "two"}, err \in StderrTexts :
          /\ code = 0 => err = <<>>
          /\ code # 0 => out # "two"
          /\ fs' = Written(fs, cmd, out, Len(launched))
          /\ p' = [returncode |-> code, stderr |-> err]
          /\ last' = [code |-> code, out |-> out, stderr |-> err, cb |-> "none"]
          /\ clean' = (clean /\ code = 0 /\ out = "one")
    /\ pc' = "exited"
    /\ UNCHANGED << updater_dir, staged_tools, idf, overwrite, cancelled,
                    exception, escaped, trans_exec, discovered, trans, cmd,
                    launched, outcome >>
    /\ UNCHANGED balance_vars
    /\ UNCHANGED extra_vars

\* "Communicate callbacks": nothing when cancelled, success_callback on
\* return code 0, failure_callback otherwise; then the loop goes on.
Callbacks ==
    /\ pc = "exited"
    /\ IF cancelled
       THEN /\ last' = [last EXCEPT !.cb = "cancelled"]
            /\ UNCHANGED << fs, idf, exception, p >>
       ELSE IF p.returncode = 0
       THEN /\ \E files \in Listings(IdfNewFiles(fs, "tmp")) :
                 /\ Range(files) = IdfNewFiles(fs, "tmp")
                 /\ LET st == AdoptAll([fs |-> fs, idf |-> idf], files, overwrite)
                    IN fs' = st.fs /\ idf' = st.idf
            /\ p' = [p EXCEPT !.stderr = <<>>]
            /\ last' = [last EXCEPT !.cb = "success"]
            /\ UNCHANGED exception
       ELSE /\ exception' = FailureException(p, cmd)
            /\ p' = [p EXCEPT !.stderr = <<>>]
            /\ last' = [last EXCEPT !.cb = "failure"]
            /\ UNCHANGED << fs, idf >>
    /\ pc' = "next"
    /\ UNCHANGED << updater_dir, staged_tools, overwrite, cancelled, escaped,
                    trans_exec, discovered, trans, cmd, launched, clean,
                    outcome >>
    /\ UNCHANGED balance_vars
    /\ UNCHANGED extra_vars

\* The program of the step about to run disappears from tmp after it was
\* registered.
DeleteTool ==
    /\ pc = "cmd"
    /\ DictGet(trans_exec, trans) \in staged_tools
    /\ staged_tools' = staged_tools \ {DictGet(trans_exec, trans)}
    /\ UNCHANGED << pc, updater_dir, fs, idf, overwrite, cancelled, exception,
                    escaped, trans_exec, discovered, trans, cmd, p, launched,
                    clean, last, outcome >>
    /\ UNCHANGED balance_vars
    /\ UNCHANGED extra_vars

\* The caller joins the thread and looks at its flag and at its exception.
Join ==
    /\ pc \in {"done", "raised"}
    /\ outcome' = IF cancelled THEN "Cancelled"
                  ELSE IF exception # None THEN "Failed" ELSE "Succeeded"
    /\ pc' = "returned"
    /\ UNCHANGED << updater_dir, staged_tools, fs, idf, overwrite, cancelled,
                    exception, escaped, trans_exec, discovered, trans, cmd, p,
                    launched, clean, last >>
    /\ UNCHANGED balance_vars
    /\ UNCHANGED extra_vars

Next ==
    \/ Upgrade
    \/ Cancel
    \/ RunStart
    \/ Next_
    \/ Launch
    \/ Exit
    \/ Callbacks
    \/ DeleteTool
    \/ Join

Spec == Init /\ [][Next]_vars

----------------------------------------------------------------------------
(* The step list alone: every listing of a directory that also holds two   *)
(* programs for one target version, and the steps of run() up to the first *)
(* __next__.                                                               *)

InitLadder == InitWith(ToolPoolWithTwin)

NextLadder ==
    \/ Upgrade
    \/ RunStart
    \/ Next_

SpecLadder == InitLadder /\ [][NextLadder]_vars

----------------------------------------------------------------------------
(* The energy balance: from_idf builds the masks and the two streams from  *)
(* the HVAC input, separate_gains_and_losses splits a component by them,   *)
(* and component_summary totals the split.                                 *)

\* No upgrade is being run.
NoTransition ==
    /\ updater_dir = <<>>
    /\ staged_tools = {}
    /\ fs = [q \in Paths |-> NoFile]
    /\ idf = [idfname |-> OriginalPath, as_version |-> NoVersion]
    /\ overwrite = FALSE
    /\ cancelled = FALSE
    /\ exception = None
    /\ escaped = "None"
    /\ trans_exec = <<>>
    /\ discovered = FALSE
    /\ trans = NoVersion
    /\ cmd = NoCmd
    /\ p = NoProcess
    /\ launched = <<>>
    /\ clean = TRUE
    /\ last = NoOutcome
    /\ outcome = "Pending"

\* The simulation's results: the HVAC input and one component, on the same
\* keys and timeline.
InitBalance ==
    /\ pc = "balance"
    /\ NoTransition
    /\ \/ \E K \in KeySets : \E n \in 1..MaxCells :
             /\ Cardinality(K) * n <= MaxCells
             /\ hvac_input \in [K -> [1..n -> Values]]
             /\ component \in [K -> [1..n -> Values]]
       \/ /\ hvac_input = [k \in Keys |-> Scenario]
          /\ component = hvac_input
    /\ rolling_sign = NoTable
    /\ is_heating = NoTable
    /\ is_cooling = NoTable
    /\ heating = NoTable
    /\ cooling = NoTable
    /\ final = NoTable
    /\ summary = NoSummary
    /\ NoMultipliers /\ NoNetting /\ NoSankey /\ NoOutputs /\ NoPipes

transition_vars == << updater_dir, staged_tools, fs, idf, overwrite, cancelled,
                     exception, escaped, trans_exec, discovered, trans, cmd,
                     p, launched, clean, last, outcome >>

\* from_idf: the rolling sign, the two masks and the two streams.
FromIdf ==
    /\ pc = "balance"
    /\ rolling_sign' = get_rolling_sign_change(hvac_input)
    /\ is_heating' = heating_mask(rolling_sign')
    /\ is_cooling' = cooling_mask(rolling_sign')
    /\ heating' = stream(hvac_input, is_heating')
    /\ cooling' = stream(hvac_input, is_cooling')
    /\ pc' = "masked"
    /\ UNCHANGED << hvac_input, component, final, summary >>
    /\ UNCHANGED transition_vars
    /\ UNCHANGED extra_vars

\* separate_gains_and_losses(component)
SeparateGainsAndLosses ==
    /\ pc = "masked"
    /\ final' = separate_gains_and_losses(component, is_cooling)
    /\ pc' = "separated"
    /\ UNCHANGED << hvac_input, rolling_sign, is_heating, is_cooling, heating,
                    cooling, component, summary >>
    /\ UNCHANGED transition_vars
    /\ UNCHANGED extra_vars

\* component_summary: the totals of the component's four columns.
ComponentSummary ==
    /\ pc = "separated"
    /\ summary' = component_summary(final)
    /\ pc' = "summarised"
    /\ UNCHANGED << hvac_input, rolling_sign, is_heating, is_cooling, heating,
                    cooling, component, final >>
    /\ UNCHANGED transition_vars
    /\ UNCHANGED extra_vars

NextBalance ==
    \/ FromIdf
    \/ SeparateGainsAndLosses
    \/ ComponentSummary

SpecBalance == InitBalance /\ [][NextBalance]_vars

----------------------------------------------------------------------------
(* from_idf: the netting of a gain table against its loss table, and to_df *)

\* Bound of the model: the most rows of the gain and loss tables.
MaxRows == 1

\* The values the gain and loss tables are drawn with.
NetValues == {1, 2}

\* The orders the columns of a table may come in.
ColumnOrders ==
    { <<>>, <<"ZONE1">>, <<"ZONE2">>, <<"ZONE1", "ZONE2">>, <<"ZONE2", "ZONE1">> }

\* The tables of n rows whose columns are the keys of order, in that order.
FramesOf(order, n) ==
    { [kind |-> "frame", index |-> n,
       columns |-> [j \in 1..Len(order) |-> [key |-> order[j], values |-> v[j]]]] :
         v \in [1..Len(order) -> [1..n -> NetValues]] }

Frames == UNION {FramesOf(order, n) : order \in ColumnOrders, n \in 0..MaxRows}

\* DataFrame.empty
empty(f) == f.index = 0 \/ f.columns = <<>>

\* DataFrame.shape
shape(f) == <<f.index, Len(f.columns)>>

\* numpy broadcasting of one dimension: equal, or one of the two is 1.
Broadcastable(a, b) == a = b \/ a = 1 \/ b = 1
BroadcastDim(a, b) == IF a = 1 THEN b ELSE a

ValueError == [kind |-> "ValueError"]

\* subtract_loss_from_gain: load_gain.values - load_loss.values, the two
\* arrays taken cell by cell in the order of their rows and columns, under
\* the columns and the index of load_gain.
subtract_loss_from_gain(gain, loss) ==
    LET gc == Len(gain.columns)
        lc == Len(loss.columns)
    IN IF ~(Broadcastable(gain.index, loss.index) /\ Broadcastable(gc, lc))
       THEN ValueError
       ELSE IF BroadcastDim(gain.index, loss.index) # gain.index
               \/ BroadcastDim(gc, lc) # gc
       THEN ValueError
       ELSE [kind |-> "frame", index |-> gain.index,
             columns |-> [j \in 1..gc |->
                [key |-> gain.columns[j].key,
                 values |-> [i \in 1..gain.index |->
                    gain.columns[j].values[i]
                      - loss.columns[IF lc = 1 THEN 1 ELSE j]
                            .values[IF loss.index = 1 THEN 1 ELSE i]]]]]

\* The paired components of from_idf.
Paired == {"infiltration", "mech_vent", "nat_vent"}

\* from_idf, "subtract losses from gains": whether the component is netted.
CanNet(comp, gain, loss, an_input_is_empty) ==
    CASE comp = "infiltration" -> gain.index = loss.index
      [] comp = "mech_vent"    -> ~an_input_is_empty
      [] comp = "nat_vent"     -> shape(gain) = shape(loss)

\* to_df: the components it goes through, in its order.
ToDfComponents(separate) ==
    IF separate
    THEN << "cooling", "heating", "lighting", "electric_equip", "people_gain",
            "solar_gain", "infiltration", "window_energy_flow", "mech_vent" >>
    ELSE << "cooling", "heating", "lighting", "electric_equip", "people_gain",
            "solar_gain", "infiltration", "window_energy_flow" >>

AttributeError == [kind |-> "AttributeError"]

RECURSIVE to_df_loop(_, _, _, _)
\* to_df, the loop on the components: "if not getattr(self, component).empty";
\* the component `comp` is `value`, the other ones are tables with data.
to_df_loop(names, comp, value, done) ==
    IF names = <<>> THEN [kind |-> "DataFrame", components |-> done]
    ELSE IF Head(names) # comp
    THEN to_df_loop(Tail(names), comp, value, Append(done, Head(names)))
    ELSE IF value = None THEN AttributeError
    ELSE IF empty(value) THEN to_df_loop(Tail(names), comp, value, done)
    ELSE to_df_loop(Tail(names), comp, value, Append(done, Head(names)))

to_df(comp, value, separate) == to_df_loop(ToDfComponents(separate), comp, value, <<>>)

NoNettingOthers ==
    /\ NoTransition /\ NoBalance
    /\ NoMultipliers /\ NoSankey /\ NoOutputs /\ NoPipes

\* The gain and the loss table of one paired component, as collected.
InitNetting ==
    /\ pc = "collected"
    /\ NoNettingOthers
    /\ which \in Paired
    /\ load_gain \in Frames
    /\ load_loss \in Frames
    /\ vent_empty \in (IF which = "mech_vent" THEN BOOLEAN ELSE {FALSE})
    /\ netted = None
    /\ to_df_result = None

not_netting_vars == << transition_vars, balance_vars, multiplier_vars,
                      sankey_vars, outputs_vars, pipe_vars >>

\* from_idf, lines 246-255: the component is netted, or left None; an
\* error of the subtraction leaves from_idf.
SubtractLosses ==
    /\ pc = "collected"
    /\ netted' = IF CanNet(which, load_gain, load_loss, vent_empty)
                 THEN subtract_loss_from_gain(load_gain, load_loss)
                 ELSE None
    /\ pc' = IF netted' = ValueError THEN "from_idf_raised" ELSE "from_idf_done"
    /\ UNCHANGED << which, load_gain, load_loss, vent_empty, to_df_result >>
    /\ UNCHANGED not_netting_vars

\* to_df(separate_gains_and_losses=separate) on the object from_idf made.
ToDf ==
    /\ pc = "from_idf_done"
    /\ \E separate \in BOOLEAN :
          to_df_result' = to_df(which, netted, separate)
    /\ pc' = "to_df_done"
    /\ UNCHANGED << which, load_gain, load_loss, vent_empty, netted >>
    /\ UNCHANGED not_netting_vars

NextNetting ==
    \/ SubtractLosses
    \/ ToDf

SpecNetting == InitNetting /\ [][NextNetting]_vars

----------------------------------------------------------------------------
(* from_idf: the series collected by zone and the zone multipliers         *)

\* The Multiplier field of a ZONE object: blank, unset, or a number.
Blank == [kind |-> "blank", v |-> 0]
Unset == [kind |-> "nan", v |-> 0]
MultiplierFields == {Blank, Unset, [kind |-> "num", v |-> 1], [kind |-> "num", v |-> 2]}

\* .replace({"": 1}).fillna(1)
multiplier_of(field) ==
    LET replaced == IF field.kind = "blank" THEN [kind |-> "num", v |-> 1] ELSE field
        filled == IF replaced.kind = "nan" THEN [kind |-> "num", v |-> 1] ELSE replaced
    IN filled.v

\* apply_multipliers: every column of data times the multiplier of its zone.
apply_multipliers(data, multipliers) ==
    [k \in DOMAIN data |->
        [i \in 1..Len(data[k]) |-> data[k][i] * multiplier_of(multipliers[k])]]

\* The series from_idf collects by zone, and those it passes to
\* apply_multipliers.
ZoneSeries ==
    {"hvac_input", "lighting", "people_gain", "equipment", "solar_gain",
     "infil_gain", "infil_loss", "vent_gain", "vent_loss", "nat_vent_gain",
     "nat_vent_loss", "mech_vent_gain", "mech_vent_loss", "window_gain",
     "window_loss"}
MultipliedSeries == {"lighting", "people_gain", "equipment"}

InitMultipliers ==
    /\ pc = "zones"
    /\ NoTransition /\ NoBalance
    /\ NoNetting /\ NoSankey /\ NoOutputs /\ NoPipes
    /\ zone_multiplier \in [Keys -> MultiplierFields]
    /\ \E K \in KeySets : \E n \in 1..MaxCells :
          /\ Cardinality(K) * n <= MaxCells
          /\ collected \in [K -> [1..n -> Values]]
    /\ scaled = <<>>

\* from_idf, lines 122-243: each series is collected (here: the same table
\* for each) and three of them are passed to apply_multipliers.
CollectSeries ==
    /\ pc = "zones"
    /\ scaled' = [name \in ZoneSeries |->
                    IF name \in MultipliedSeries
                    THEN apply_multipliers(collected, zone_multiplier)
                    ELSE collected]
    /\ pc' = "series_collected"
    /\ UNCHANGED << zone_multiplier, collected >>
    /\ UNCHANGED << transition_vars, balance_vars, netting_vars, sankey_vars,
                    outputs_vars, pipe_vars >>

NextMultipliers == CollectSeries

SpecMultipliers == InitMultipliers /\ [][NextMultipliers]_vars

----------------------------------------------------------------------------
(* to_sankey: the records of the Sankey diagram.  Values are counted in    *)
(* hundredths of the unit, so that the 0.01 of the links is 1.             *)

\* The components of the summary, in the order of its index, and the end
\* uses and energy sources of the report, in the order of its table.
SankeyComponents == << "cooling", "heating", "lighting" >>
EndUses == << "Heating", "Cooling" >>
EnergySources == << "Electricity", "Natural Gas" >>

\* annual_system_data.rename({...}), the entries that apply.
rename(c) == IF c = "lighting" THEN "Lighting" ELSE c

\* The totals of a column over the year: a Heat Gain total is not
\* negative and a Heat Loss total not positive; the heating stream has no
\* loss and the cooling stream no gain.
TotalsOf(c) ==
    { t \in [Slices -> {-2, 0, 4}] :
        \A sl \in Slices :
           /\ sl[2] = "Heat Gain" => t[sl] >= 0
           /\ sl[2] = "Heat Loss" => t[sl] <= 0
           /\ (c = "heating" /\ sl[2] = "Heat Loss") => t[sl] = 0
           /\ (c = "cooling" /\ sl[2] = "Heat Gain") => t[sl] = 0 }

\* The zones each component has a column for.
ZonesOf(c) == IF c = "lighting" THEN Keys ELSE {"ZONE1"}

\* .sum(level=["Component", "Period", "Gain/Loss"]), for one component and
\* one slice: the sum over the zones that are left to add.
RECURSIVE sum_level(_, _, _)
sum_level(columns, zones, sl) ==
    IF zones = {} THEN 0
    ELSE LET z == CHOOSE z \in zones : TRUE
         IN columns[z][sl] + sum_level(columns, zones \ {z}, sl)

\* annual_system_data = system_data.sum().sum(level=[...])
annual(totals) ==
    [c \in DOMAIN totals |->
       [sl \in Slices |-> sum_level(totals[c], DOMAIN totals[c], sl)]]

\* abs without taking the absolute value.
abs_keeps_sign(x) == x

\* abs
abs(x) == IF x < 0 THEN -x ELSE x

\* load.unstack("Gain/Loss").replace({0: np.NaN}).loc[:, column].dropna():
\* the components whose total of the column in the period is not 0.
load_rows(data, period, column) ==
    SelectSeq(SankeyComponents, LAMBDA c : data[c][<<period, column>>] # 0)

\* .apply(abs).rename("value"), for one component.
load_value(data, period, column, c) == Num(abs(data[c][<<period, column>>]))

\* _sankey_heating: load_source_data
heating_load_source(data) ==
    LET rows == load_rows(data, "Heating Periods", "Heat Gain")
    IN [r \in 1..Len(rows) |->
          [source |-> IF rename(rows[r]) \o " Gain" = "heating Gain"
                      THEN "Heating System" ELSE rename(rows[r]) \o " Gain",
           target |-> "Heating Load",
           value |-> load_value(data, "Heating Periods", "Heat Gain", rows[r])]]

\* _sankey_heating: load_target_data
heating_load_target(data) ==
    LET rows == load_rows(data, "Heating Periods", "Heat Loss")
    IN [r \in 1..Len(rows) |->
          [source |-> "Heating Load",
           target |-> rename(rows[r]) \o " Heat Losses",
           value |-> load_value(data, "Heating Periods", "Heat Loss", rows[r])]]

\* _sankey_cooling: load_source_data
cooling_load_source(data) ==
    LET rows == load_rows(data, "Cooling Periods", "Heat Loss")
    IN [r \in 1..Len(rows) |->
          [source |-> IF rename(rows[r]) \o " Losses" = "cooling Losses"
                      THEN "Cooling System" ELSE rename(rows[r]) \o " Losses",
           target |-> "Cooling Load",
           value |-> load_value(data, "Cooling Periods", "Heat Loss", rows[r])]]

\* _sankey_cooling: load_target_data
cooling_load_target(data) ==
    LET rows == load_rows(data, "Cooling Periods", "Heat Gain")
    IN [r \in 1..Len(rows) |->
          [source |-> "Cooling Load",
           target |-> rename(rows[r]),
           value |-> load_value(data, "Cooling Periods", "Heat Gain", rows[r])]]

\* link_system_to_gains: load_source without the row of the system (drop
\* raises KeyError when there is no such row), each row with the value 0.01.
HasSource(records, name) == \E r \in 1..Len(records) : records[r].source = name

link_system_to_gains(load_source, system, end_use) ==
    LET kept == SelectSeq(load_source, LAMBDA rec : rec.source # system)
    IN [r \in 1..Len(kept) |->
          [source |-> end_use, target |-> kept[r].source, value |-> Num(1)]]

\* system_input: the cells of the End Uses table that are not 0, one
\* record (source, target, value) each, source by source.
system_input_records(table) ==
    LET cells == << <<EnergySources[1], EndUses[1]>>, <<EnergySources[1], EndUses[2]>>,
                    <<EnergySources[2], EndUses[1]>>, <<EnergySources[2], EndUses[2]>> >>
        kept == SelectSeq(cells, LAMBDA c : table[c[2]][c[1]] # 0)
    IN [r \in 1..Len(kept) |->
          [source |-> kept[r][1], target |-> kept[r][2],
           value |-> Num(table[kept[r][2]][kept[r][1]])]]

\* system_input.set_index("target").at[end_use, "value"].sum()
RECURSIVE energy_to_system(_, _)
energy_to_system(records, end_use) ==
    IF records = <<>> THEN 0
    ELSE (IF Head(records).target = end_use THEN Head(records).value.v ELSE 0)
            + energy_to_system(Tail(records), end_use)

HasTarget(records, name) == \E r \in 1..Len(records) : records[r].target = name

\* to_sankey raises KeyError: no row of the end use in system_input, or no
\* row of the system in load_source.
SankeyKeyError(data, table) ==
    \/ ~HasTarget(system_input_records(table), "Heating")
    \/ ~HasTarget(system_input_records(table), "Cooling")
    \/ ~HasSource(heating_load_source(data), "Heating System")
    \/ ~HasSource(cooling_load_source(data), "Cooling System")

\* The system is the only row of a load_source: .apply(lambda, axis=1) is
\* then made on a frame with no row, whose result the following
\* .rename("value") either accepts or refuses, as the pandas at hand does.
NoLinkRows(data) ==
    \/ Len(heating_load_source(data)) = 1
    \/ Len(cooling_load_source(data)) = 1

\* to_sankey: the nine lists of records, in the order they are written.
to_sankey(data, table) ==
    << system_input_records(table),
       link_system_to_gains(heating_load_source(data), "Heating System", "Heating"),
       << [source |-> "Heating", target |-> "Heating System",
           value |-> Num(energy_to_system(system_input_records(table), "Heating"))] >>,
       heating_load_source(data),
       heating_load_target(data),
       << [source |-> "Cooling", target |-> "Cooling System",
           value |-> Num(energy_to_system(system_input_records(table), "Cooling"))] >>,
       cooling_load_source(data),
       cooling_load_target(data),
       link_system_to_gains(cooling_load_source(data), "Cooling System", "Cooling") >>

InitSankey ==
    /\ pc = "summary_made"
    /\ NoTransition /\ NoBalance
    /\ NoMultipliers /\ NoNetting /\ NoOutputs /\ NoPipes
    /\ \E h \in TotalsOf("heating"), k \in TotalsOf("cooling"),
          l \in [ZonesOf("lighting") -> TotalsOf("lighting")] :
          system_data = [c \in {"cooling", "heating", "lighting"} |->
                           IF c = "heating" THEN [z \in ZonesOf(c) |-> h]
                           ELSE IF c = "cooling" THEN [z \in ZonesOf(c) |-> k]
                           ELSE l]
    /\ annual_system_data = <<>>
    /\ system_input \in [{"Heating", "Cooling"} ->
                            [{"Electricity", "Natural Gas"} -> {0, 3}]]
    /\ sankey = <<>>

\* to_sankey(path_or_buf)
ToSankey ==
    /\ pc = "summary_made"
    /\ annual_system_data' = annual(system_data)
    /\ IF SankeyKeyError(annual(system_data), system_input)
       THEN pc' = "sankey_raised" /\ sankey' = sankey
       ELSE \/ /\ pc' = "sankey_written"
               /\ sankey' = to_sankey(annual(system_data), system_input)
            \/ /\ NoLinkRows(annual(system_data))
               /\ pc' = "sankey_raised" /\ sankey' = sankey
    /\ UNCHANGED << system_data, system_input >>
    /\ UNCHANGED << transition_vars, balance_vars, multiplier_vars,
                    netting_vars, outputs_vars, pipe_vars >>

NextSankey == ToSankey

SpecSankey == InitSankey /\ [][NextSankey]_vars

----------------------------------------------------------------------------
(* Outputs (outputs.py): the constructor, the add_* methods and apply.     *)
(* An output dict is written as its "key" entry; its other entries do not  *)
(* take part in what the methods do.                                        *)

\* The longest list of dicts handed over, and the longest chain of calls.
MaxOutputs == 2
MaxCalls == 2

\* Dicts a caller hands over: one that is neither meter nor variable, a
\* meter and a variable.
UserDicts == { "Output:Diagnostics", "Output:Meter", "Output:Variable" }

DictLists == UNION { [1..k -> UserDicts] : k \in 0..MaxOutputs }

\* key.upper()
upper(key) ==
    CASE key = "Output:Diagnostics" -> "OUTPUT:DIAGNOSTICS"
      [] key = "Output:Meter" -> "OUTPUT:METER"
      [] key = "Output:Variable" -> "OUTPUT:VARIABLE"
      [] OTHER -> key

\* "meter" in output["key"].lower() / "variable" in output["key"].lower()
is_meter(key) == upper(key) = "OUTPUT:METER"
is_variable(key) == upper(key) = "OUTPUT:VARIABLE"

UmiTemplateVariables ==
    { "Air System Outdoor Air Minimum Flow Fraction",
      "Air System Total Cooling Energy",
      "Air System Total Heating Energy",
      "Heat Exchanger Latent Effectiveness",
      "Heat Exchanger Sensible Effectiveness",
      "Heat Exchanger Total Heating Rate",
      "Water Heater Heating Energy",
      "Zone Ideal Loads Zone Total Cooling Energy",
      "Zone Ideal Loads Zone Total Heating Energy",
      "Zone Thermostat Cooling Setpoint Temperature",
      "Zone Thermostat Heating Setpoint Temperature" }

UmiTemplateMeters ==
    { "Baseboard:EnergyTransfer", "Cooling:DistrictCooling",
      "Cooling:Electricity", "Cooling:EnergyTransfer", "Cooling:Gas",
      "CoolingCoils:EnergyTransfer", "Fans:Electricity",
      "HeatRejection:Electricity", "HeatRejection:EnergyTransfer",
      "Heating:DistrictHeating", "Heating:Electricity",
      "Heating:EnergyTransfer", "Heating:Gas",
      "HeatingCoils:EnergyTransfer", "Pumps:Electricity",
      "Refrigeration:Electricity", "Refrigeration:EnergyTransfer",
      "WaterSystems:EnergyTransfer" }

UmiVariables ==
    { "Air System Total Heating Energy",
      "Air System Total Cooling Energy",
      "Zone Ideal Loads Zone Total Cooling Energy",
      "Zone Ideal Loads Zone Total Heating Energy",
      "Water Heater Heating Energy" }

ProfileMeters ==
    { "Electricity:Facility", "Gas:Facility", "WaterSystems:Electricity",
      "Heating:Electricity", "Cooling:Electricity" }

HvacVariables ==
    { "Baseboard Electricity Energy",
      "Boiler NaturalGas Energy",
      "Chiller Electricity Energy",
      "Chiller Heater System Cooling Electricity Energy",
      "Chiller Heater System Heating Electricity Energy",
      "Cooling Coil Electricity Energy",
      "Cooling Tower Fan Electricity Energy",
      "District Cooling Chilled Water Energy",
      "District Heating Hot Water Energy",
      "Evaporative Cooler Electricity Energy",
      "Fan Electricity Energy",
      "Heating Coil Electricity Energy",
      "Heating Coil NaturalGas Energy",
      "Heating Coil Total Heating Energy",
      "Hot_Water_Loop_Central_Air_Source_Heat_Pump Electricity Consumption",
      "Humidifier Electricity Energy",
      "Pump Electricity Energy",
      "VRF Heat Pump Cooling Electricity Energy",
      "VRF Heat Pump Crankcase Heater Electricity Energy",
      "VRF Heat Pump Defrost Electricity Energy",
      "VRF Heat Pump Heating Electricity Energy",
      "Zone VRF Air Terminal Cooling Electricity Energy",
      "Zone VRF Air Terminal Heating Electricity Energy" }

\* apply: the objects made, one OUTPUT:VARIABLE for each variable, one
\* OUTPUT:METER for each meter (both in sorted order, all alike here), then
\* one for each other output with its key in upper case.
applied(variables, meters, others) ==
    [i \in 1..Cardinality(variables) |-> "OUTPUT:VARIABLE"]
       \o [i \in 1..Cardinality(meters) |-> "OUTPUT:METER"]
       \o [i \in 1..Len(others) |-> upper(others[i])]

\* apply: output["key"] = key.upper(), made on the dicts themselves
uppered(others) == [i \in 1..Len(others) |-> upper(others[i])]

\* add_custom: the dicts appended to _other_outputs before the first meter
\* or variable dict, whose set.add raises TypeError (a dict is unhashable).
RECURSIVE custom_appended(_)
custom_appended(outputs) ==
    IF outputs = <<>> THEN <<>>
    ELSE IF is_meter(Head(outputs)) \/ is_variable(Head(outputs)) THEN <<>>
    ELSE <<Head(outputs)>> \o custom_appended(Tail(outputs))

custom_raises(outputs) ==
    \E i \in 1..Len(outputs) : is_meter(outputs[i]) \/ is_variable(outputs[i])

\* What the chain calls its next method on: the Outputs object at first,
\* then what the call before returned.
ChainOn == IF returned = <<>> THEN "self" ELSE returned[Len(returned)]

CanCall ==
    /\ pc = "chaining"
    /\ Len(returned) < MaxCalls
    /\ ChainOn = "self"

\* The state before Outputs(idf, outputs=L): an idf with no output object.
InitOutputs ==
    /\ pc = "outputs_new"
    /\ NoTransition /\ NoBalance
    /\ NoMultipliers /\ NoNetting /\ NoSankey /\ NoPipes
    /\ given \in DictLists
    /\ other_outputs = <<>>
    /\ output_variables = {}
    /\ output_meters = {}
    /\ newidfobjects = <<>>
    /\ returned = <<>>

not_outputs_vars == << transition_vars, balance_vars, multiplier_vars,
                       netting_vars, sankey_vars, pipe_vars >>

\* Outputs.__init__(idf, outputs=given, include_sqlite, include_html):
\* other_outputs = outputs copies the list, other_outputs += tuple(outputs)
\* extends the copy by the same dicts, then the two setters add their
\* object and apply.
Construct ==
    /\ pc = "outputs_new"
    /\ \E include_sqlite \in BOOLEAN, include_html \in BOOLEAN :
          LET assigned == given \o given
              with_sql == IF include_sqlite
                          THEN uppered(Append(assigned, "OUTPUT:SQLITE"))
                          ELSE assigned
              made_sql == IF include_sqlite
                          THEN applied({}, {}, Append(assigned, "OUTPUT:SQLITE"))
                          ELSE <<>>
              with_html == IF include_html
                           THEN uppered(Append(with_sql, "OUTPUTCONTROL:TABLE:STYLE"))
                           ELSE with_sql
              made_html == IF include_html
                           THEN applied({}, {}, Append(with_sql, "OUTPUTCONTROL:TABLE:STYLE"))
                           ELSE <<>>
          IN /\ other_outputs' = with_html
             /\ newidfobjects' = made_sql \o made_html
             /\ given' = IF include_sqlite \/ include_html
                         THEN uppered(given) ELSE given
    /\ pc' = "chaining"
    /\ UNCHANGED << output_variables, output_meters, returned >>
    /\ UNCHANGED not_outputs_vars

\* add_custom(outputs)
AddCustom ==
    /\ CanCall
    /\ \E outputs \in DictLists :
          /\ other_outputs' = other_outputs \o custom_appended(outputs)
          /\ returned' = Append(returned, IF custom_raises(outputs)
                                          THEN "TypeError" ELSE "self")
    /\ UNCHANGED << pc, given, output_variables, output_meters, newidfobjects >>
    /\ UNCHANGED not_outputs_vars

\* add_basics(): add_summary_report().add_output_control().add_schedules()
\* .add_meter_variables()
AddBasics ==
    /\ CanCall
    /\ other_outputs' = other_outputs \o
          << "OUTPUT:TABLE:SUMMARYREPORTS", "OUTPUTCONTROL:TABLE:STYLE",
             "OUTPUT:SCHEDULES", "OUTPUT:VARIABLEDICTIONARY" >>
    /\ returned' = Append(returned, "self")
    /\ UNCHANGED << pc, given, output_variables, output_meters, newidfobjects >>
    /\ UNCHANGED not_outputs_vars

\* add_schedules()
AddSchedules ==
    /\ CanCall
    /\ other_outputs' = Append(other_outputs, "OUTPUT:SCHEDULES")
    /\ returned' = Append(returned, "self")
    /\ UNCHANGED << pc, given, output_variables, output_meters, newidfobjects >>
    /\ UNCHANGED not_outputs_vars

\* add_meter_variables()
AddMeterVariables ==
    /\ CanCall
    /\ other_outputs' = Append(other_outputs, "OUTPUT:VARIABLEDICTIONARY")
    /\ returned' = Append(returned, "self")
    /\ UNCHANGED << pc, given, output_variables, output_meters, newidfobjects >>
    /\ UNCHANGED not_outputs_vars

\* add_summary_report()
AddSummaryReport ==
    /\ CanCall
    /\ other_outputs' = Append(other_outputs, "OUTPUT:TABLE:SUMMARYREPORTS")
    /\ returned' = Append(returned, "self")
    /\ UNCHANGED << pc, given, output_variables, output_meters, newidfobjects >>
    /\ UNCHANGED not_outputs_vars

\* add_sql()
AddSql ==
    /\ CanCall
    /\ other_outputs' = Append(other_outputs, "OUTPUT:SQLITE")
    /\ returned' = Append(returned, "self")
    /\ UNCHANGED << pc, given, output_variables, output_meters, newidfobjects >>
    /\ UNCHANGED not_outputs_vars

\* add_output_control()
AddOutputControl ==
    /\ CanCall
    /\ other_outputs' = Append(other_outputs, "OUTPUTCONTROL:TABLE:STYLE")
    /\ returned' = Append(returned, "self")
    /\ UNCHANGED << pc, given, output_variables, output_meters, newidfobjects >>
    /\ UNCHANGED not_outputs_vars

\* add_umi_template_outputs()
AddUmiTemplateOutputs ==
    /\ CanCall
    /\ output_variables' = output_variables \cup UmiTemplateVariables
    /\ output_meters' = output_meters \cup UmiTemplateMeters
    /\ returned' = Append(returned, "self")
    /\ UNCHANGED << pc, given, other_outputs, newidfobjects >>
    /\ UNCHANGED not_outputs_vars

\* add_dxf()
AddDxf ==
    /\ CanCall
    /\ other_outputs' = Append(other_outputs, "OUTPUT:SURFACES:DRAWING")
    /\ returned' = Append(returned, "self")
    /\ UNCHANGED << pc, given, output_variables, output_meters, newidfobjects >>
    /\ UNCHANGED not_outputs_vars

\* add_umi_outputs()
AddUmiOutputs ==
    /\ CanCall
    /\ output_variables' = output_variables \cup UmiVariables
    /\ returned' = Append(returned, "self")
    /\ UNCHANGED << pc, given, other_outputs, output_meters, newidfobjects >>
    /\ UNCHANGED not_outputs_vars

\* add_profile_gas_elect_outputs()
AddProfileGasElectOutputs ==
    /\ CanCall
    /\ output_meters' = output_meters \cup ProfileMeters
    /\ returned' = Append(returned, "self")
    /\ UNCHANGED << pc, given, other_outputs, output_variables, newidfobjects >>
    /\ UNCHANGED not_outputs_vars

\* add_hvac_energy_use(): the method ends after its loop, with no return.
AddHvacEnergyUse ==
    /\ CanCall
    /\ output_variables' = output_variables \cup HvacVariables
    /\ returned' = Append(returned, "None")
    /\ UNCHANGED << pc, given, other_outputs, output_meters, newidfobjects >>
    /\ UNCHANGED not_outputs_vars

\* The next method of the chain, or apply(), called on None.
CallOnNone ==
    /\ pc = "chaining"
    /\ ChainOn = "None"
    /\ returned' = Append(returned, "AttributeError")
    /\ pc' = "chain_raised"
    /\ UNCHANGED << given, other_outputs, output_variables, output_meters,
                    newidfobjects >>
    /\ UNCHANGED not_outputs_vars

\* apply(), the end of the chain.
Apply ==
    /\ pc = "chaining"
    /\ ChainOn = "self"
    /\ newidfobjects' = newidfobjects
                          \o applied(output_variables, output_meters, other_outputs)
    /\ other_outputs' = uppered(other_outputs)
    /\ pc' = "applied"
    /\ UNCHANGED << given, output_variables, output_meters, returned >>
    /\ UNCHANGED not_outputs_vars

NextOutputs ==
    \/ Construct
    \/ AddCustom
    \/ AddBasics
    \/ AddSchedules
    \/ AddMeterVariables
    \/ AddSummaryReport
    \/ AddSql
    \/ AddOutputControl
    \/ AddUmiTemplateOutputs
    \/ AddDxf
    \/ AddUmiOutputs
    \/ AddProfileGasElectOutputs
    \/ AddHvacEnergyUse
    \/ CallOnNone
    \/ Apply

SpecOutputs == InitOutputs /\ [][NextOutputs]_vars

----------------------------------------------------------------------------
(* run() and the transition program over the two pipes of Popen            *)
(* (stdout=PIPE, stderr=PIPE): the program writes, run() reads stdout to   *)
(* its end, waits for the program, and reads stderr in failure_callback.   *)

\* The writes a program makes, and the writes a pipe holds before the next
\* write to it blocks.
MaxWrites == 4
PipeCapacity == 1

Scripts == UNION { [1..n -> {"out", "err"}] : n \in 0..MaxWrites }

\* The program's next write, when it has one left.
NextWrite == script[prog.written + 1]

\* The program's next write fits in its pipe.
CanWrite ==
    /\ prog.state = "running"
    /\ prog.written < Len(script)
    /\ IF NextWrite = "out" THEN stdout_pipe < PipeCapacity
                            ELSE stderr_pipe < PipeCapacity

\* The program has written everything and ends, closing its ends of the
\* pipes.
CanExit == prog.state = "running" /\ prog.written = Len(script)

\* for line in self.p.stdout: a line is there to read.
CanReadLine == runner = "read_stdout" /\ stdout_pipe > 0

\* for line in self.p.stdout: end of file, the pipe is empty and closed.
AtEof == runner = "read_stdout" /\ stdout_pipe = 0 /\ prog.state = "exited"

\* self.p.wait() returns.
CanWait == runner = "wait" /\ prog.state = "exited"

InitPipes ==
    /\ pc = "popen"
    /\ NoTransition /\ NoBalance
    /\ NoMultipliers /\ NoNetting /\ NoSankey /\ NoOutputs
    /\ script \in Scripts
    /\ stdout_pipe = 0
    /\ stderr_pipe = 0
    /\ runner = "read_stdout"
    /\ prog = [state |-> "running", written |-> 0]

not_pipe_vars == << transition_vars, balance_vars, multiplier_vars,
                    netting_vars, sankey_vars, outputs_vars >>

\* The program writes to stdout or to stderr.
ProgramWrite ==
    /\ CanWrite
    /\ IF NextWrite = "out"
       THEN stdout_pipe' = stdout_pipe + 1 /\ stderr_pipe' = stderr_pipe
       ELSE stderr_pipe' = stderr_pipe + 1 /\ stdout_pipe' = stdout_pipe
    /\ prog' = [prog EXCEPT !.written = prog.written + 1]
    /\ UNCHANGED << pc, script, runner >>
    /\ UNCHANGED not_pipe_vars

\* The program exits.
ProgramExit ==
    /\ CanExit
    /\ prog' = [prog EXCEPT !.state = "exited"]
    /\ UNCHANGED << pc, script, stdout_pipe, stderr_pipe, runner >>
    /\ UNCHANGED not_pipe_vars

\* for line in self.p.stdout: one line read.
RunnerReadStdout ==
    /\ CanReadLine
    /\ stdout_pipe' = stdout_pipe - 1
    /\ UNCHANGED << pc, script, stderr_pipe, runner, prog >>
    /\ UNCHANGED not_pipe_vars

\* The loop over stdout ends; self.p.stdout.close().
RunnerEof ==
    /\ AtEof
    /\ runner' = "wait"
    /\ UNCHANGED << pc, script, stdout_pipe, stderr_pipe, prog >>
    /\ UNCHANGED not_pipe_vars

\* self.p.wait()
RunnerWait ==
    /\ CanWait
    /\ runner' = "callbacks"
    /\ UNCHANGED << pc, script, stdout_pipe, stderr_pipe, prog >>
    /\ UNCHANGED not_pipe_vars

\* The callbacks: stderr is read to its end after success_callback and in
\* failure_callback, and is not read when the run is cancelled.
RunnerCallbacks ==
    /\ runner = "callbacks"
    /\ \E is_cancelled \in BOOLEAN :
          stderr_pipe' = IF is_cancelled THEN stderr_pipe ELSE 0
    /\ runner' = "done"
    /\ UNCHANGED << pc, script, stdout_pipe, prog >>
    /\ UNCHANGED not_pipe_vars

NextPipes ==
    \/ ProgramWrite
    \/ ProgramExit
    \/ RunnerReadStdout
    \/ RunnerEof
    \/ RunnerWait
    \/ RunnerCallbacks

SpecPipes == InitPipes /\ [][NextPipes]_vars

----------------------------------------------------------------------------
(* Properties *)

\* The version of the file the caller gave.
OriginalVersion == fs[OriginalPath].ver

\* The target versions of the programs of the updater's directory.
DiscoveredVersions == {ParseTarget(updater_dir[k]) : k \in 1..Len(updater_dir)}

\* The discovered versions v with c < v <= t.
Between(c, t) ==
    {v \in DiscoveredVersions : VersionLess(c, v) /\ VersionLeq(v, t)}

\* s lists the set S in strictly ascending order, each element once.
AscendingListOf(s, S) ==
    /\ Range(s) = S
    /\ Len(s) = Cardinality(S)
    /\ \A i, j \in 1..Len(s) : i < j => VersionLess(s[i], s[j])

Last(s) == s[Len(s)]

\* C1: once a step has failed or the run is marked cancelled, no further
\* transition program is launched in that run.
C1_NoLaunchAfterFailureOrCancel ==
    [][(pc \in RunPcs /\ (exception # None \/ cancelled)) => launched' = launched]_vars

\* C2: for target t >= current c and every set of discovered programs, the
\* step list (of TransitionExe and of TransitionThread) is the set of the
\* discovered targets v with c < v <= t in strictly ascending order without
\* duplicates, and it is empty for t = c.
C2_StepList ==
    discovered =>
        LET c == idf_version(fs, idf)
            t == idf.as_version
        IN VersionLeq(c, t) =>
              /\ AscendingListOf(transitions(trans_exec, fs, idf), Between(c, t))
              /\ AscendingListOf(thread_transitions(updater_dir, fs, idf), Between(c, t))
              /\ (t = c => transitions(trans_exec, fs, idf) = <<>>)

\* C2 witness: three steps found from a directory with four programs whose
\* listing is not in the order of the versions.
C2_Witness ==
    /\ discovered
    /\ Len(updater_dir) = 4
    /\ VersionLess(ParseTarget(updater_dir[4]), ParseTarget(updater_dir[1]))
    /\ Len(transitions(trans_exec, fs, idf)) = 3

\* C3: within one run the programs are launched in strictly ascending order
\* of their target version, the output of a step being adopted before the
\* next program is launched.
C3_AscendingLaunches ==
    /\ \A i, j \in 1..Len(launched) : i < j => VersionLess(launched[i], launched[j])
    /\ (pc = "running" /\ Len(launched) > 1) =>
           idf_version(fs, idf) = launched[Len(launched) - 1]

\* C4: when every program exits with code 0 and writes its output file (the
\* run is not cancelled and no program is removed), the programs launched
\* are, in order and each once, those of the discovered versions in (c, t];
\* when run() returns all of them were launched.
C4_OneLaunchPerVersion ==
    (discovered /\ clean /\ ~cancelled /\ escaped = "None") =>
        LET expected == Between(OriginalVersion, idf.as_version) IN
        /\ \A i, j \in 1..Len(launched) : i < j => VersionLess(launched[i], launched[j])
        /\ Range(launched) \subseteq expected
        /\ \A v \in expected :
              v \in Range(launched) \/ (launched # <<>> => VersionLess(Last(launched), v))
        /\ pc \in {"done", "returned"} => AscendingListOf(launched, expected)

\* C4 witness: the run from 8-0-0 to 9-0-1 with the three programs has
\* returned after the launches 8-5-0, 8-9-0, 9-0-1.
C4_Witness ==
    /\ pc = "done"
    /\ clean /\ ~cancelled
    /\ OriginalVersion = <<8, 0, 0>>
    /\ launched = << <<8, 5, 0>>, <<8, 9, 0>>, <<9, 0, 1>> >>

\* A step is applied with success: its program exited with code 0,
\* success_callback ran, and the step's output file is the one *.idfnew file
\* of the staging directory.
StepApplied ==
    /\ pc = "next"
    /\ last.cb = "success"
    /\ last.out = "one"
    /\ Cardinality(IdfNewFiles(fs, "tmp")) = 1

\* C5: after each step applied with success the model's version is the
\* step's target version and idf.idfname points at a copy of the file that
\* step produced.
C5_VersionAndPathAfterStep ==
    StepApplied =>
        /\ idf_version(fs, idf) = Last(launched)
        /\ fs[idf.idfname].gen = Len(launched)
        /\ fs[idf.idfname] = fs[<<"tmp", NewName(cmd.arg)>>]
        /\ idf.idfname[1] = OutputDirectory

\* C5 witness: the second step of a run was applied.
C5_Witness ==
    /\ StepApplied
    /\ Len(launched) = 2
    /\ idf_version(fs, idf) = <<8, 9, 0>>

\* C6: a run that ends with no error recorded leaves the model at the
\* requested version.
C6_SucceededAtTarget ==
    (pc = "done" /\ exception = None) => idf_version(fs, idf) = idf.as_version

\* A version of the ladder between the original and the requested version
\* for which the directory holds no program.
MissingRungs ==
    {r \in Versions \ DiscoveredVersions :
        VersionLess(OriginalVersion, r) /\ VersionLess(r, idf.as_version)}

\* C7: with the program of an intermediate rung not installed the run fails
\* with an error, the model stays at the last rung completed before the
\* missing one, and no program of a later rung is run.
C7_MissingRungFails ==
    discovered =>
        /\ \A r \in MissingRungs : \A k \in 1..Len(launched) : VersionLess(launched[k], r)
        /\ (pc = "done" /\ MissingRungs # {}) =>
               /\ exception # None
               /\ \A r \in MissingRungs : VersionLess(idf_version(fs, idf), r)

\* C8: after exit code 0 the step succeeds only with exactly one *.idfnew
\* file in the staging directory; with none or several the step is a
\* process error and the model's file is not replaced.
C8_ExactlyOneOutputFile ==
    [][(pc = "exited" /\ pc' = "next" /\ ~cancelled /\ p.returncode = 0
            /\ Cardinality(IdfNewFiles(fs, "tmp")) # 1)
        => (exception' # None /\ idf' = idf)]_vars

\* C9: a non-zero exit does not raise; the exception recorded carries the
\* exit code and the stderr text of the program.
C9_FailureCarriesCodeAndStderr ==
    (pc = "next" /\ last.cb = "failure") =>
        /\ escaped = "None"
        /\ exception.kind = "CalledProcessError"
        /\ exception.returncode = last.code
        /\ exception.stderr = last.stderr

\* C10: a step whose program exited non-zero is not launched again in the
\* run: no program is launched for the target of the failed command.
C10_FailedStepNotRelaunched ==
    (pc = "running" /\ exception # None) =>
        Last(launched) # ParseTarget(exception.cmd.exe)

C12_MissingExeReported ==
    /\ pc = "raised" => exception.kind = "EnergyPlusProcessError"
    /\ (pc = "returned" /\ escaped = "EnergyPlusProcessError") =>
          outcome = "Failed"

\* C13: a run on a model already at the requested version launches no
\* program, records no error, ends Succeeded (unless it was cancelled), and
\* leaves the model's file and path as they were; the request read nothing
\* that the run changed, and a second one has no step to run either.
C13_AtTargetNothingToDo ==
    OriginalVersion = idf.as_version =>
        /\ pc \notin {"cmd", "running", "exited", "raised"}
        /\ launched = <<>>
        /\ exception = None
        /\ escaped = "None"
        /\ idf.idfname = OriginalPath
        /\ fs[OriginalPath].gen = 0
        /\ \A q \in {"out"} \X Names : fs[q] = NoFile
        /\ thread_transitions(updater_dir, fs, idf) = <<>>
        /\ pc = "returned" =>
              outcome = IF cancelled THEN "Cancelled" ELSE "Succeeded"

C13_Witness ==
    /\ pc = "returned"
    /\ OriginalVersion = idf.as_version
    /\ outcome = "Succeeded"
    /\ \E k \in 1..Len(updater_dir) : ParseTarget(updater_dir[k]) = idf.as_version

\* C14: once a run is marked cancelled it stays marked, and it ends with
\* the outcome Cancelled.
C14_CancelledEndsCancelled ==
    [][/\ cancelled => cancelled'
       /\ (cancelled /\ pc' = "returned") => outcome' = "Cancelled"]_vars

\* C15: when the run has ended with every step applied, the model's file
\* has the name the original file had; with overwrite it is the original
\* path, now holding the upgraded model; without, it is in the output
\* directory and the original file is as it was.
C15_FinalFileUnderOriginalName ==
    (pc = "done" /\ clean /\ ~cancelled /\ launched # <<>>) =>
        /\ Basename(idf.idfname) = Basename(OriginalPath)
        /\ idf_version(fs, idf) = Last(launched)
        /\ overwrite => idf.idfname = OriginalPath
        /\ ~overwrite => /\ idf.idfname[1] = OutputDirectory
                         /\ fs[OriginalPath].gen = 0

\* The masks have been computed by from_idf.
Masked == pc \in {"masked", "separated", "summarised"}

\* The timesteps of key k.
Steps(k) == 1..Len(hvac_input[k])

\* C17: at every timestep of every key exactly one of is_heating and
\* is_cooling is True.
C17_MasksPartition ==
    Masked => \A k \in DOMAIN hvac_input : \A i \in Steps(k) :
                 is_heating[k][i] # is_cooling[k][i]

\* The timesteps of key k before (after) i whose raw value is not 0.
NonZeroBefore(k, i) == {j \in 1..(i - 1) : hvac_input[k][j] # 0}
NonZeroAfter(k, i) == {j \in (i + 1)..Len(hvac_input[k]) : hvac_input[k][j] # 0}

Max(S) == CHOOSE j \in S : \A h \in S : j >= h
Min(S) == CHOOSE j \in S : \A h \in S : j <= h

ValueOf(c) == IF c.isnan THEN 0 ELSE c.v

\* The component has been split by separate_gains_and_losses.
Separated == pc \in {"separated", "summarised"}

\* C19: for every key and timestep, the four cells of the split add up to
\* the component's value, and exactly one of them holds a value.
C19_GainPlusLossIsOriginal ==
    Separated => \A k \in DOMAIN component : \A i \in 1..Len(component[k]) :
        LET cells == final[k][i] IN
        /\ DOMAIN cells = Slices
        /\ ValueOf(cells[<<"Cooling Periods", "Heat Gain">>])
             + ValueOf(cells[<<"Cooling Periods", "Heat Loss">>])
             + ValueOf(cells[<<"Heating Periods", "Heat Gain">>])
             + ValueOf(cells[<<"Heating Periods", "Heat Loss">>])
             = component[k][i]
        /\ Cardinality({sl \in Slices : ~cells[sl].isnan}) = 1

C19_Witness ==
    /\ pc = "separated"
    /\ \E k \in DOMAIN component : \E i \in 1..Len(component[k]) :
          /\ final[k][i][<<"Cooling Periods", "Heat Loss">>] = Num(-2)
          /\ component[k][i] = -2
    /\ \E k \in DOMAIN component : \E i \in 1..Len(component[k]) :
          /\ final[k][i][<<"Heating Periods", "Heat Gain">>] = Num(0)

\* No row of the split holds a value in the slice sl.
EmptySlice(sl) ==
    \A k \in DOMAIN final : \A i \in 1..Len(final[k]) : final[k][i][sl].isnan

KeysOf(f) == {f.columns[j].key : j \in 1..Len(f.columns)}

\* The column of key k of a table.
ColumnOf(f, k) == f.columns[CHOOSE j \in 1..Len(f.columns) : f.columns[j].key = k]

\* C21: the net of a gain table and a loss table of the same rows and the
\* same keys holds, for every key and timestep, the gain of that key minus
\* the loss of that key, in whatever order the columns of the two come.
C21_NetByKeyAndTimestep ==
    (pc \in {"from_idf_done", "to_df_done"} /\ netted # None
       /\ load_gain.index = load_loss.index
       /\ KeysOf(load_gain) = KeysOf(load_loss)) =>
        /\ netted.kind = "frame"
        /\ KeysOf(netted) = KeysOf(load_gain)
        /\ \A k \in KeysOf(load_gain) : \A i \in 1..load_gain.index :
              ColumnOf(netted, k).values[i] =
                 ColumnOf(load_gain, k).values[i] - ColumnOf(load_loss, k).values[i]

\* C22: to_df completes whether or not the paired component was netted;
\* a component left None is not in the summary, and every other component
\* is.
C22_ToDfOmitsUnavailable ==
    pc = "to_df_done" =>
        /\ to_df_result.kind = "DataFrame"
        /\ netted = None => \A c \in 1..Len(to_df_result.components) :
                               to_df_result.components[c] # which
        /\ \A name \in {"cooling", "heating", "lighting", "electric_equip",
                        "people_gain", "solar_gain", "window_energy_flow"} :
              \E c \in 1..Len(to_df_result.components) :
                 to_df_result.components[c] = name

\* C25: every series collected by zone is, for every zone and timestep, the
\* raw value times the zone's multiplier, 1 for a blank or unset field.
C25_EverySeriesScaled ==
    pc = "series_collected" =>
        \A name \in ZoneSeries : \A k \in DOMAIN collected :
           \A i \in 1..Len(collected[k]) :
              scaled[name][k][i] =
                 collected[k][i] * (IF zone_multiplier[k].kind = "num"
                                    THEN zone_multiplier[k].v ELSE 1)

\* All the records written, one list after the other.
AllRecords ==
    sankey[1] \o sankey[2] \o sankey[3] \o sankey[4] \o sankey[5]
       \o sankey[6] \o sankey[7] \o sankey[8] \o sankey[9]

\* C23: every record written by to_sankey has a value that is a number and
\* not negative, and no two records, of one list or of the whole file, have
\* the same source and target: the record from Heating to its system
\* carries the sum over the energy sources, and the record of a component
\* the sum over its zones.
C23_SankeyRecordsValid ==
    pc = "sankey_written" =>
        /\ \A r \in 1..Len(AllRecords) :
              /\ ~AllRecords[r].value.isnan
              /\ AllRecords[r].value.v >= 0
        /\ \A r, q \in 1..Len(AllRecords) :
              (AllRecords[r].source = AllRecords[q].source
                 /\ AllRecords[r].target = AllRecords[q].target) => r = q
        /\ sankey[3][1].value.v =
              system_input["Heating"]["Electricity"]
                 + system_input["Heating"]["Natural Gas"]
        /\ \A r \in 1..Len(sankey[5]) :
              sankey[5][r].target = "Lighting Heat Losses" =>
                 sankey[5][r].value.v =
                    - (system_data["lighting"]["ZONE1"][<<"Heating Periods", "Heat Loss">>]
                         + system_data["lighting"]["ZONE2"][<<"Heating Periods", "Heat Loss">>])

C23_Witness ==
    /\ pc = "sankey_written"
    /\ \E r \in 1..Len(sankey[5]) :
          /\ sankey[5][r].target = "Lighting Heat Losses"
          /\ sankey[5][r].value = Num(4)
    /\ Len(sankey[2]) > 0
    /\ sankey[3][1].value = Num(6)

\* C24: every add_* method returns the Outputs object it was called on, so
\* that whichever of them a chain has called, the next call of the chain,
\* apply() included, is made on that object.
C24_EveryAddReturnsSelf ==
    \A i \in 1..Len(returned) : returned[i] = "self"

\* How many times a dict is in a list.
Count(list, d) == Cardinality({ i \in 1..Len(list) : list[i] = d })

\* C30: once Outputs(idf, outputs=L) is constructed, other_outputs holds
\* each dict of L as many times as L does, besides the objects the
\* include_sqlite and include_html setters add.
C30_GivenOutputsHeldOnce ==
    (pc = "chaining" /\ returned = <<>>) =>
        \A i \in 1..Len(given) :
            Count(other_outputs, given[i]) = Count(given, given[i])

\* C26: every run ends after finitely many launches: each turn of the loop
\* of run(), from the exit of a program to the next __next__, leaves fewer
\* steps to do than there were, also when the program exited non-zero or
\* wrote no output file.
C26_EveryTurnLeavesFewerSteps ==
    [][(pc = "exited" /\ pc' = "next") =>
          Len(transitions(trans_exec', fs', idf'))
             < Len(transitions(trans_exec, fs, idf))]_vars

\* C27: when run() has ended, by returning or by an exception leaving the
\* thread, either no discovered version above the model's version and up to
\* the target is left, or TransitionThread.exception is set.
C27_EndedRunAtTargetOrFailed ==
    pc \in {"done", "raised"} =>
        \/ exception # None
        \/ Between(idf_version(fs, idf), idf.as_version) = {}

\* C29: at every timestep of every key of the HVAC input the heating
\* stream is a number that is not negative, the cooling stream a number
\* that is not positive, and the two add up to the value of the input.
C29_StreamsSplitInput ==
    Masked => \A k \in DOMAIN hvac_input : \A i \in Steps(k) :
                 /\ ~heating[k][i].isnan /\ ~cooling[k][i].isnan
                 /\ heating[k][i].v >= 0
                 /\ cooling[k][i].v <= 0
                 /\ heating[k][i].v + cooling[k][i].v = hvac_input[k][i]

C29_Witness ==
    /\ Masked
    /\ \E k \in DOMAIN hvac_input : \E h, z, c \in Steps(k) :
          /\ hvac_input[k][h] > 0 /\ heating[k][h].v = hvac_input[k][h]
          /\ hvac_input[k][z] = 0
          /\ hvac_input[k][c] < 0 /\ cooling[k][c].v = hvac_input[k][c]

\* C28: run() and the program never block each other over the pipes: as
\* long as p.wait() has not returned, the program can write or exit, or
\* run() can read a line, see the end of stdout, or return from wait.
C28_NoPipeDeadlock ==
    runner \in {"read_stdout", "wait"} =>
        CanWrite \/ CanExit \/ CanReadLine \/ AtEof \/ CanWait

====
